---- MODULE Spec2Model ----
(***************************************************************************)
(* Model of src/recommendation_engine.py: the ProgramRecommender class     *)
(* (catalog + TF-IDF vectorizer), its generate_recommendations method and  *)
(* the output stage of the main driver.                                    *)
(*                                                                         *)
(* Strings are sequences of atoms: an atom is a word or a single space.    *)
(* Numbers that scikit-learn keeps as floats are kept here as exact        *)
(* integers and fractions (idf in tenths); similarities are compared as    *)
(* exact fractions.                                                        *)
(***************************************************************************)
EXTENDS Integers, Sequences, FiniteSets, TLC

\* ------------------------------------------------------------------ bounds
\* longest catalog a single call is applied to
MaxPrograms == 3

\* top_n ranges over -MaxTopN .. MaxTopN
MaxTopN == 2

\* longest catalog of an object that is grown by add_program
MaxAdded == 2

\* idf values are kept in units of 1/IdfScale
IdfScale == 10

\* top_n=5, the default of generate_recommendations and of --top_n
DefaultTopN == 5

\* ------------------------------------------------------------------ inputs
SP == " "

\* The sample records that add_program and the catalog file are drawn from:
\* complete records, records whose text is empty or stop words only, records
\* with the same tokens but another text or category, records lacking a key.
Records ==
  { [name |-> <<"Yoga">>, category |-> <<"fitness">>, notes |-> <<"class">>, venue |-> <<"Gym">>],
    [name |-> <<"Yoga">>, category |-> <<"Fitness">>, notes |-> <<"the", SP, "class">>, venue |-> <<"Gym">>],
    [name |-> <<"Chess">>, category |-> <<"games">>, notes |-> <<"weekly", SP, "B">>, venue |-> <<"Hall">>],
    [name |-> <<"the">>, category |-> <<"the">>, venue |-> <<"Hall">>],
    [name |-> <<>>, category |-> <<>>, notes |-> <<>>, venue |-> <<"Hall">>],
    [category |-> <<"fitness">>,
     notes |-> <<"Yoga", SP, "class", SP, "Yoga", SP, "fitness", SP, "class">>, venue |-> <<"Gym">>],
    [name |-> <<"Yoga">>, notes |-> <<"fitness", SP, "class">>, venue |-> <<"Gym">>],
    [name |-> <<"Chess">>, category |-> <<"fitness">>, notes |-> <<"Chess">>] }

\* The lists of desired categories a call is made with.
CategoryLists ==
  { << <<"fitness">> >>,
    << <<"games">>, <<"Fitness">> >>,
    << <<"the">>, <<>> >>,
    << <<"music">> >> }

TopNs == (0 - MaxTopN) .. MaxTopN

\* catalogs a recommender is constructed with (the loaded "programs" list)
Catalogs == UNION { [1..n -> Records] : n \in 0..MaxPrograms }

\* catalogs an object that is then grown by add_program is constructed with
InitialCatalogs ==
  { <<>>,
    << [name |-> <<"Yoga">>, category |-> <<"fitness">>, notes |-> <<"class">>, venue |-> <<"Gym">>] >> }

\* ------------------------------------------------------------ text features
Range(s) == { s[i] : i \in 1..Len(s) }

\* p.get(k, '')
Get(p, k) == IF k \in DOMAIN p THEN p[k] ELSE <<>>

\* f"{p.get('name', '')} {p.get('category', '')} {p.get('notes', '')}"
Description(p) ==
  Get(p, "name") \o <<SP>> \o Get(p, "category") \o <<SP>> \o Get(p, "notes")

RECURSIVE Descriptions(_)
Descriptions(progs) ==
  IF Len(progs) = 0 THEN <<>>
  ELSE <<Description(Head(progs))>> \o Descriptions(Tail(progs))

\* str.lower() on the atoms of the model
Lower(a) ==
  CASE a = "Yoga" -> "yoga"
    [] a = "Fitness" -> "fitness"
    [] a = "Chess" -> "chess"
    [] a = "B" -> "b"
    [] OTHER -> a

\* token_pattern r"(?u)\b\w\w+\b": words of two or more word characters
TokenPattern(a) == a \notin {SP, "b"}

\* the members of scikit-learn's English stop word list among the atoms
ENGLISH_STOP_WORDS == {"the"}

\* build_analyzer(): lowercase, tokenize, drop stop words
Analyze(doc) ==
  LET low == [i \in 1..Len(doc) |-> Lower(doc[i])]
  IN  SelectSeq(low, LAMBDA t : TokenPattern(t) /\ t \notin ENGLISH_STOP_WORDS)

Count(t, toks) == Cardinality({ i \in 1..Len(toks) : toks[i] = t })

\* natural logarithm in units of 1/IdfScale
Ln(k) ==
  CASE k = 1 -> 0
    [] k = 2 -> 7
    [] k = 3 -> 11
    [] k = 4 -> 14
    [] k = 5 -> 16
    [] k = 6 -> 18
    [] OTHER -> 19

\* smooth idf: ln((1 + n) / (1 + df)) + 1
Idf(n, df) == Ln(1 + n) - Ln(1 + df) + IdfScale

\* TfidfVectorizer(stop_words='english'), not fitted yet
UnfittedVectorizer == [fitted |-> FALSE, vocabulary |-> {}, idf |-> <<>>]

\* the analyzer applied to each document of a list
RECURSIVE AnalyzeAll(_)
AnalyzeAll(docs) ==
  IF Len(docs) = 0 THEN <<>>
  ELSE <<Analyze(Head(docs))>> \o AnalyzeAll(Tail(docs))

\* one TF-IDF row: term count times idf for each term of the vocabulary
\* (the L2 normalisation is applied where the rows are compared)
RECURSIVE Row(_, _, _)
Row(terms, idf, toks) ==
  IF terms = {} THEN <<>>
  ELSE LET t == CHOOSE x \in terms : TRUE
       IN  (t :> Count(t, toks) * idf[t]) @@ Row(terms \ {t}, idf, toks)

RECURSIVE Rows(_, _)
Rows(vec, tokenized) ==
  IF Len(tokenized) = 0 THEN <<>>
  ELSE <<Row(vec.vocabulary, vec.idf, Head(tokenized))>> \o Rows(vec, Tail(tokenized))

\* TfidfVectorizer.transform: the rows of docs over the fitted vocabulary
Transform(vec, docs) == Rows(vec, AnalyzeAll(docs))

\* document frequencies turned into idf weights, term by term
RECURSIVE IdfOf(_, _)
IdfOf(terms, tokenized) ==
  IF terms = {} THEN <<>>
  ELSE LET t == CHOOSE x \in terms : TRUE
           df == Cardinality({ i \in 1..Len(tokenized) : t \in Range(tokenized[i]) })
       IN  (t :> Idf(Len(tokenized), df)) @@ IdfOf(terms \ {t}, tokenized)

\* (mutant of FitTransform) a vectorizer that is fitted once and then reused
FitTransformOnce(vec, docs) ==
  LET tokenized == AnalyzeAll(docs)
      vocabulary == UNION { Range(tokenized[i]) : i \in 1..Len(tokenized) }
      fit == [fitted |-> TRUE,
              vocabulary |-> vocabulary,
              idf |-> IdfOf(vocabulary, tokenized)]
  IN  IF vec.fitted
      THEN [raised |-> FALSE, vectorizer |-> vec, matrix |-> Rows(vec, tokenized)]
      ELSE IF vocabulary = {}
      THEN [raised |-> TRUE, vectorizer |-> vec, matrix |-> <<>>]
      ELSE [raised |-> FALSE, vectorizer |-> fit, matrix |-> Rows(fit, tokenized)]

\* TfidfVectorizer.fit_transform: learns vocabulary and idf from docs, whatever
\* was fitted before, and returns the rows of docs; raises ValueError on an
\* empty vocabulary and then leaves the vectorizer as it was
FitTransform(vec, docs) ==
  LET tokenized == AnalyzeAll(docs)
      vocabulary == UNION { Range(tokenized[i]) : i \in 1..Len(tokenized) }
      fit == [fitted |-> TRUE,
              vocabulary |-> vocabulary,
              idf |-> IdfOf(vocabulary, tokenized)]
  IN  IF vocabulary = {}
      THEN [raised |-> TRUE, vectorizer |-> vec, matrix |-> <<>>]
      ELSE [raised |-> FALSE, vectorizer |-> fit, matrix |-> Rows(fit, tokenized)]

\* ------------------------------------------------------------- similarity
RECURSIVE SumOver(_, _)
SumOver(S, f) ==
  IF S = {} THEN 0
  ELSE LET t == CHOOSE x \in S : TRUE IN f[t] + SumOver(S \ {t}, f)

Dot(u, v) == SumOver(DOMAIN u, [t \in DOMAIN u |-> u[t] * v[t]])

\* a/b compared with c/d (b, d > 0): -1, 0 or 1
RECURSIVE FracCmp(_, _, _, _)
FracCmp(a, b, c, d) ==
  LET q1 == a \div b
      q2 == c \div d
      r1 == a % b
      r2 == c % d
  IN  IF q1 # q2 THEN (IF q1 < q2 THEN 0 - 1 ELSE 1)
      ELSE IF r1 = 0 /\ r2 = 0 THEN 0
      ELSE IF r1 = 0 THEN 0 - 1
      ELSE IF r2 = 0 THEN 1
      ELSE FracCmp(d, r2, b, r1)

\* (mutant of Cosine) a zero row counted as fully similar to every row
CosineZeroIsOne(u, v) ==
  LET nu == Dot(u, u)
      nv == Dot(v, v)
      d  == Dot(u, v)
  IN  IF nu = 0 \/ nv = 0 THEN [num |-> 1, den |-> 1]
      ELSE [num |-> d * d, den |-> nu * nv]

\* cosine of two rows, as the fraction num/den of its square; a zero row is
\* left as it is by the normalisation, and its similarity to anything is 0
Cosine(u, v) ==
  LET nu == Dot(u, u)
      nv == Dot(v, v)
      d  == Dot(u, v)
  IN  IF nu = 0 \/ nv = 0 THEN [num |-> 0, den |-> 1]
      ELSE [num |-> d * d, den |-> nu * nv]

\* the similarities of row u to each row of Y
RECURSIVE CosineRow(_, _)
CosineRow(u, Y) ==
  IF Len(Y) = 0 THEN <<>>
  ELSE <<Cosine(u, Head(Y))>> \o CosineRow(u, Tail(Y))

\* cosine_similarity(X, Y): one row per row of X, one column per row of Y
RECURSIVE CosineSimilarity(_, _)
CosineSimilarity(X, Y) ==
  IF Len(X) = 0 THEN <<>>
  ELSE <<CosineRow(Head(X), Y)>> \o CosineSimilarity(Tail(X), Y)

Greater(x, y) == FracCmp(x.num, x.den, y.num, y.den) = 1

\* numpy argmax of one row: scan from the left, keep the first index holding
\* the largest value (indices are 1-based here)
RECURSIVE ArgMaxFrom(_, _, _)
ArgMaxFrom(row, j, best) ==
  IF j > Len(row) THEN best
  ELSE ArgMaxFrom(row, j + 1, IF Greater(row[j], row[best]) THEN j ELSE best)

\* (mutant of ArgMax) the last index holding the largest value
RECURSIVE ArgMaxLastFrom(_, _, _)
ArgMaxLastFrom(row, j, best) ==
  IF j > Len(row) THEN best
  ELSE ArgMaxLastFrom(row, j + 1, IF Greater(row[best], row[j]) THEN best ELSE j)

ArgMaxLast(row) == ArgMaxLastFrom(row, 2, 1)

ArgMax(row) == ArgMaxFrom(row, 2, 1)

\* (mutant of Slice) s[-n:], the last n instead of the first n
SliceLast(s, n) ==
  IF n > 0
  THEN SubSeq(s, IF n < Len(s) THEN Len(s) - n + 1 ELSE 1, Len(s))
  ELSE s

\* s[:n] of Python
Slice(s, n) ==
  IF n >= 0
  THEN SubSeq(s, 1, IF n < Len(s) THEN n ELSE Len(s))
  ELSE SubSeq(s, 1, IF Len(s) + n > 0 THEN Len(s) + n ELSE 0)

\* ------------------------------------------------ generate_recommendations
\* p.get('category') in user_categories
CategoryMatch(p, user_categories) ==
  "category" \in DOMAIN p /\ p["category"] \in Range(user_categories)

\* indices (catalog order) of the records kept by the category filter
CategoryMatches(progs, user_categories) ==
  SelectSeq([i \in 1..Len(progs) |-> i],
            LAMBDA i : CategoryMatch(progs[i], user_categories))

\* The whole method, from the vectorizer state vec and the catalog progs:
\* outcome, the vectorizer and the catalog afterwards, the argmax array and the
\* returned list.
GenerateRecommendations(vec, progs, user_categories, top_n) ==
  IF progs = <<>>
  THEN [outcome |-> "returned", vectorizer |-> vec, programs |-> progs,
        indices |-> <<>>, result |-> <<>>]
  ELSE
    LET fit == FitTransform(vec, Descriptions(progs))
        tfidf_matrix == fit.matrix
        category_matches == CategoryMatches(progs, user_categories)
        category_descriptions ==
          Descriptions([c \in 1..Len(category_matches) |-> progs[category_matches[c]]])
        category_tfidf == Transform(fit.vectorizer, category_descriptions)
        similarities == CosineSimilarity(category_tfidf, tfidf_matrix)
        similar_program_indices ==
          [c \in 1..Len(category_matches) |-> ArgMax(similarities[c])]
        chosen == Slice(similar_program_indices, top_n)
    IN  IF fit.raised
        THEN [outcome |-> "ValueError", vectorizer |-> fit.vectorizer, programs |-> progs,
              indices |-> <<>>, result |-> <<>>]
        ELSE IF category_matches = <<>>
        THEN [outcome |-> "returned", vectorizer |-> fit.vectorizer, programs |-> progs,
              indices |-> <<>>, result |-> <<>>]
        ELSE [outcome |-> "returned", vectorizer |-> fit.vectorizer, programs |-> progs,
              indices |-> similar_program_indices,
              result |-> [k \in 1..Len(chosen) |-> progs[chosen[k]]]]

\* ------------------------------------------------------------------ state
VARIABLES
  programs,                 \* self.programs
  vectorizer,               \* self.vectorizer (its fitted vocabulary and idf)
  call,                     \* the last operation, its arguments, and the
                            \* vocabulary the vectorizer held when it began
  outcome,                  \* how the last operation ended
  similar_program_indices,  \* the argmax array of the last call, before [:top_n]
  recommended_programs,     \* the list the last call returned
  printed,                  \* program lines main has written
  initial,                  \* history: the list the object was constructed with
  added                     \* history: the arguments of add_program, in call order

vars == <<programs, vectorizer, call, outcome, similar_program_indices,
          recommended_programs, printed, initial, added>>

NoCall == [op |-> "init", user_categories |-> <<>>, top_n |-> 0, prior |-> {}]

\* ProgramRecommender(programs=catalog): self.programs = programs or []
Constructed(catalog) ==
  /\ programs = catalog
  /\ vectorizer = UnfittedVectorizer
  /\ call = NoCall
  /\ outcome = "constructed"
  /\ similar_program_indices = <<>>
  /\ recommended_programs = <<>>
  /\ printed = 0
  /\ initial = catalog
  /\ added = <<>>

Init == \E catalog \in InitialCatalogs : Constructed(catalog)

InitLoaded == \E catalog \in Catalogs : Constructed(catalog)

\* (mutant of Appended) self.programs.insert(0, program)
Inserted(progs, program) == <<program>> \o progs

\* self.programs.append(program)
Appended(progs, program) == Append(progs, program)

add_program(program) ==
  /\ Len(programs) < MaxAdded
  /\ programs' = Appended(programs, program)
  /\ added' = Append(added, program)
  /\ call' = [op |-> "add_program", user_categories |-> <<>>, top_n |-> 0,
              prior |-> vectorizer.vocabulary]
  /\ outcome' = "returned"
  /\ similar_program_indices' = <<>>
  /\ recommended_programs' = <<>>
  /\ UNCHANGED <<vectorizer, printed, initial>>

generate_recommendations(user_categories, top_n) ==
  LET r == GenerateRecommendations(vectorizer, programs, user_categories, top_n)
  IN  /\ vectorizer' = r.vectorizer
      /\ programs' = r.programs
      /\ call' = [op |-> "generate_recommendations",
                  user_categories |-> user_categories, top_n |-> top_n,
                  prior |-> vectorizer.vocabulary]
      /\ outcome' = r.outcome
      /\ similar_program_indices' = r.indices
      /\ recommended_programs' = r.result
      /\ UNCHANGED <<printed, initial, added>>

\* the first of 'name', 'category', 'venue' that program lacks ("" if none):
\* print(f"... {program['name']} ... {program['category']} ... {program['venue']}")
MissingKey(program) ==
  IF "name" \notin DOMAIN program THEN "name"
  ELSE IF "category" \notin DOMAIN program THEN "category"
  ELSE IF "venue" \notin DOMAIN program THEN "venue"
  ELSE ""

\* the output loop of main over the returned list: lines written, and the
\* KeyError that ends it, if any
PrintPrograms(recommended) ==
  LET bad == { i \in 1..Len(recommended) : MissingKey(recommended[i]) # "" }
      first == CHOOSE i \in bad : \A k \in bad : i <= k
  IN  IF bad = {}
      THEN [outcome |-> "exit 0", printed |-> Len(recommended)]
      ELSE [outcome |-> "KeyError: " \o MissingKey(recommended[first]),
            printed |-> first - 1]

\* main, from the loaded catalog on: construct the recommender, call
\* generate_recommendations, print the programs or "No recommendations available."
main(preferred_categories, top_n) ==
  LET r == GenerateRecommendations(vectorizer, programs, preferred_categories, top_n)
      out == PrintPrograms(r.result)
  IN  /\ vectorizer' = r.vectorizer
      /\ programs' = r.programs
      /\ call' = [op |-> "main", user_categories |-> preferred_categories,
                  top_n |-> top_n, prior |-> vectorizer.vocabulary]
      /\ outcome' = IF r.outcome = "ValueError" THEN "ValueError" ELSE out.outcome
      /\ printed' = IF r.outcome = "ValueError" THEN 0 ELSE out.printed
      /\ similar_program_indices' = r.indices
      /\ recommended_programs' = r.result
      /\ UNCHANGED <<initial, added>>

\* An object grown by add_program and queried at any time, with the default
\* top_n or top_n = 1.
Next ==
  \/ \E program \in Records : add_program(program)
  \/ \E user_categories \in CategoryLists, top_n \in {1, DefaultTopN} :
       generate_recommendations(user_categories, top_n)

Spec == Init /\ [][Next]_vars

\* One call of generate_recommendations on a recommender constructed with any
\* catalog.
NextRecommend ==
  \E user_categories \in CategoryLists, top_n \in TopNs :
    call.op = "init" /\ generate_recommendations(user_categories, top_n)

SpecRecommend == InitLoaded /\ [][NextRecommend]_vars

\* One run of main on any catalog file.
NextMain ==
  \E preferred_categories \in CategoryLists, top_n \in TopNs :
    call.op = "init" /\ main(preferred_categories, top_n)

SpecMain == InitLoaded /\ [][NextMain]_vars

\* ------------------------------------------------------------- properties
Min(a, b) == IF a < b THEN a ELSE b

Called == call.op = "generate_recommendations"

Returned == Called /\ outcome = "returned"

\* the candidates of the last call: catalog indices, in catalog order
Candidates == CategoryMatches(programs, call.user_categories)

Desired(p) == CategoryMatch(p, call.user_categories)

Tokens(p) == Analyze(Description(p))

TokenCount(p, t) == Count(t, Tokens(p))

SameCounts(p, q) ==
  \A t \in Range(Tokens(p)) \cup Range(Tokens(q)) : TokenCount(p, t) = TokenCount(q, t)

\* non-zero token counts that are multiples of one another: the records have
\* the same L2-normalised TF-IDF vector
Proportional(p, q) ==
  /\ Tokens(p) # <<>>
  /\ Tokens(q) # <<>>
  /\ \A s, t \in Range(Tokens(p)) \cup Range(Tokens(q)) :
       TokenCount(p, s) * TokenCount(q, t) = TokenCount(p, t) * TokenCount(q, s)

\* the TF-IDF rows of the current catalog under a fit on that catalog
CatalogMatrix == FitTransform(UnfittedVectorizer, Descriptions(programs)).matrix

Similarity(c, j) == Cosine(CatalogMatrix[c], CatalogMatrix[j])

\* j is the lowest catalog index among those of maximum similarity to record c
LowestBest(c, j) ==
  /\ \A k \in 1..Len(programs) : ~Greater(Similarity(c, k), Similarity(c, j))
  /\ \A k \in 1..(j - 1) : Greater(Similarity(c, j), Similarity(c, k))

\* C1: if no record's category equals a desired category, the call returns the
\* empty list and does not raise, whatever the records' text is.
C1_NoMatchReturnsEmpty ==
  (Called /\ \A i \in 1..Len(programs) : ~Desired(programs[i]))
    => (outcome = "returned" /\ recommended_programs = <<>>)

\* C2: for top_n <= 0 the returned list is empty, also when two or more
\* records match.
C2_NonPositiveTopNReturnsEmpty ==
  (Returned /\ call.top_n <= 0) => recommended_programs = <<>>

\* C3: the returned list is no longer than min(top_n, number of matching
\* records); a length is never negative, so below zero the bound reads 0.
C3_LengthBound ==
  Returned =>
    Len(recommended_programs) <= Min(IF call.top_n < 0 THEN 0 ELSE call.top_n,
                                     Len(Candidates))

\* C4: the result follows candidate order: its i-th entry is the catalog record
\* at the lowest index among those of maximum similarity to the i-th candidate,
\* and the result is a prefix of these best matches, the first top_n of them
\* (all of them when there are fewer) for top_n >= 0.
C4_CandidateOrder ==
  Returned =>
    /\ Len(recommended_programs) <= Len(Candidates)
    /\ call.top_n >= 0 =>
         Len(recommended_programs) = Min(call.top_n, Len(Candidates))
    /\ \A i \in 1..Len(recommended_programs) :
         \E j \in 1..Len(programs) :
           /\ LowestBest(Candidates[i], j)
           /\ recommended_programs[i] = programs[j]

\* C4 witness: two candidates were returned and the second one's best match is
\* a record that precedes the first one's.
C4_Witness ==
  /\ Returned
  /\ similar_program_indices = <<2, 1>>
  /\ recommended_programs = <<programs[2], programs[1]>>

UniqueText(c) ==
  \A k \in 1..Len(programs) : k # c => Description(programs[k]) # Description(programs[c])

\* C5 as claimed: a candidate whose synthesized text equals that of no other
\* record has its own catalog index as best match.
C5_UniqueTextSelfMatch ==
  Returned =>
    \A i \in 1..Len(Candidates) :
      UniqueText(Candidates[i]) => similar_program_indices[i] = Candidates[i]

\* the description of record c keeps a token, no lower-index record has
\* proportional token counts, and a higher-index record with proportional
\* token counts has the very same counts
OwnVector(c) ==
  /\ Tokens(programs[c]) # <<>>
  /\ \A k \in 1..Len(programs) :
       (k # c /\ Proportional(programs[k], programs[c]))
         => (k > c /\ SameCounts(programs[k], programs[c]))

\* every record with token counts proportional to those of record c has the
\* very same counts
OnlyEqualTwins(c) ==
  \A k \in 1..Len(programs) :
    Proportional(programs[k], programs[c]) => SameCounts(programs[k], programs[c])

\* the lowest index of a record with the token counts of record c
FirstTwin(c) ==
  CHOOSE k \in 1..c :
    /\ SameCounts(programs[k], programs[c])
    /\ \A j \in 1..(k - 1) : ~SameCounts(programs[j], programs[c])

\* C5 as amended: a candidate whose description keeps at least one token, whose
\* token counts are proportional to those of no lower-index record, and equal
\* to those of every higher-index record they are proportional to, has its own
\* catalog index as best match.  A candidate whose description keeps no token
\* has the first record of the catalog as best match.  A candidate whose
\* description keeps a token, in a catalog where every record with proportional
\* token counts has the same counts, has as best match the lowest-index record
\* with its token counts.
C5_OwnVectorSelfMatch ==
  Returned =>
    \A i \in 1..Len(Candidates) :
      LET c == Candidates[i]
      IN  /\ OwnVector(c) => similar_program_indices[i] = c
          /\ Tokens(programs[c]) = <<>> => similar_program_indices[i] = 1
          /\ (Tokens(programs[c]) # <<>> /\ OnlyEqualTwins(c))
               => similar_program_indices[i] = FirstTwin(c)

\* C5 witness: such a candidate, not the first record of a catalog in which a
\* later record has the same token counts, best-matched itself, and that later
\* record, a candidate too, best-matched the earlier one.
C5_Witness ==
  /\ Returned
  /\ \E i \in 1..Len(Candidates) :
       /\ OwnVector(Candidates[i])
       /\ Candidates[i] > 1
       /\ similar_program_indices[i] = Candidates[i]
       /\ \E h \in (i + 1)..Len(Candidates) :
            /\ SameCounts(programs[Candidates[h]], programs[Candidates[i]])
            /\ OnlyEqualTwins(Candidates[h])
            /\ similar_program_indices[h] = Candidates[i]

\* C6: on a non-empty catalog holding a record whose text is empty or stop
\* words only, the call completes and returns a list.
C6_ZeroVectorsNeverRaise ==
  (Called /\ \E i \in 1..Len(programs) : Tokens(programs[i]) = <<>>)
    => outcome = "returned"

\* C7: whatever was called before, a call ends as the same call on a freshly
\* constructed recommender holding the same catalog does: same outcome, same
\* best matches, same returned list.
C7_SameAsFresh ==
  Called =>
    LET fresh == GenerateRecommendations(UnfittedVectorizer, programs,
                                         call.user_categories, call.top_n)
    IN  /\ outcome = fresh.outcome
        /\ similar_program_indices = fresh.indices
        /\ recommended_programs = fresh.result

\* C7 witness: a call that began with a vocabulary fitted by an earlier call on
\* another catalog, and returned records.
C7_Witness ==
  /\ Called
  /\ call.prior # {}
  /\ call.prior # vectorizer.vocabulary
  /\ recommended_programs # <<>>

\* C8: the catalog is the list the object was constructed with followed by the
\* added records in call order; generate_recommendations does not change it.
C8_CatalogIsInitialThenAdded == programs = initial \o added

\* C8 witness: after a call of generate_recommendations on an object that was
\* constructed with a record and then given a record lacking one of the keys.
C8_Witness ==
  /\ Called
  /\ initial # <<>>
  /\ \E i \in 1..Len(added) : DOMAIN added[i] # {"name", "category", "notes", "venue"}
  /\ recommended_programs # <<>>

\* C9: a run of main ends with a lookup error at output time exactly when a
\* recommended record has no venue key.
C9_OnlyVenueFails ==
  call.op = "main" =>
    ((outcome \in {"KeyError: name", "KeyError: category", "KeyError: venue"})
       <=> \E i \in 1..Len(recommended_programs) :
             "venue" \notin DOMAIN recommended_programs[i])

\* C10 as claimed: every returned record has a desired category.
C10_ResultInDesiredCategories ==
  Returned => \A i \in 1..Len(recommended_programs) : Desired(recommended_programs[i])

\* the description of record c keeps a token, and every record of another
\* category with proportional token counts comes later and has the same counts
NoForeignTwin(c) ==
  /\ Tokens(programs[c]) # <<>>
  /\ \A k \in 1..Len(programs) :
       (~Desired(programs[k]) /\ Proportional(programs[k], programs[c]))
         => (k > c /\ SameCounts(programs[k], programs[c]))

\* C10 as amended: the i-th returned record has a desired category whenever the
\* i-th candidate's description keeps at least one token and no record outside
\* the desired categories has proportional token counts at a lower index, or
\* proportional but different token counts at a higher one.
C10_DesiredUnlessForeignTwin ==
  Returned =>
    \A i \in 1..Len(recommended_programs) :
      NoForeignTwin(Candidates[i]) => Desired(recommended_programs[i])

\* C10 witness: a record was returned for such a candidate although the first
\* record of the catalog is outside the desired categories.
C10_Witness ==
  /\ Returned
  /\ Len(programs) > 1
  /\ ~Desired(programs[1])
  /\ \E i \in 1..Len(recommended_programs) :
       /\ NoForeignTwin(Candidates[i])
       /\ Desired(recommended_programs[i])

====
